---- MODULE Spec2Model ----
(***************************************************************************)
(* Model of the nebula certificate core: the TBSCertificate builder, the   *)
(* signing pipeline of cert/sign.go and the V1 codec and verification      *)
(* operations of cert/cert_v1.go.                                          *)
(*                                                                         *)
(* Representation.  A uint32 is the pair of its high and low 16 bits, read *)
(* from and written to four bytes in big-endian order as the code does; a  *)
(* netip.Addr is its kind ("v4", "v4in6", "v6")                            *)
(* and its low four bytes; a time.Time is its Unix second and its          *)
(* nanosecond part; a nil slice and an empty slice are both <<>>.  The     *)
(* protobuf encoding of a message is the message itself (field values in   *)
(* field order); proto.Marshal fails on a string that is not valid UTF-8.  *)
(* Signatures and SHA-256 are symbolic: a digest determines its input and  *)
(* a signature verifies exactly under the key and message it was made of.  *)
(***************************************************************************)
EXTENDS Integers, Sequences, FiniteSets, TLC

VARIABLES
    t,      \* the caller's TBSCertificate
    c,      \* the first certificate Sign returned to the caller
    snap,   \* what c was when Sign returned it
    out,    \* the result of the call that has just returned
    pc,     \* per thread: the position inside the call it is running
    loc     \* per thread: the locals and the result of its call

vars == <<t, c, snap, out, pc, loc>>

(***************************************************************************)
(* Bounds of the model.                                                    *)
(***************************************************************************)
MaxNets == 2
NumKeys == 2
KeyBytes == 2
NumThreads == 2
MaxWrites == 1

(***************************************************************************)
(* Small helpers.                                                          *)
(***************************************************************************)
SeqsUpTo(S, n) == UNION {[1..k -> S] : k \in 0..n}

Range(s) == {s[i] : i \in 1..Len(s)}

Pow2(n) == 2^n

\* A string of the model that is not valid UTF-8.
BadUTF8 == "\\xff"

ValidUTF8(s) == s # BadUTF8

(***************************************************************************)
(* Enumerations.                                                           *)
(***************************************************************************)
Curve_CURVE25519 == "CURVE25519"
Curve_P256 == "P256"
Curve_Invalid == "Curve(2)"

Version1 == "Version1"
Version2 == "Version2"
VersionUnknown == "Version(0)"

(***************************************************************************)
(* time.Time                                                               *)
(***************************************************************************)
Time(s, ns) == [sec |-> s, nsec |-> ns]

TimeUnix(tm) == tm.sec

UnixTime(s) == Time(s, 0)

TimeBefore(a, b) == a.sec < b.sec \/ (a.sec = b.sec /\ a.nsec < b.nsec)

TimeAfter(a, b) == TimeBefore(b, a)

(***************************************************************************)
(* netip.Addr, netip.Prefix and the integer conversions.                   *)
(***************************************************************************)
Addr(kind, b) == [kind |-> kind, b |-> b]

Prefix(a, bits) == [addr |-> a, bits |-> bits]

BitLen(a) == IF a.kind = "v4" THEN 32 ELSE 128

\* The 12 bytes above the low four of a 16-byte address, as one rank: a
\* 4in6 address is ::ffff:a.b.c.d, the model's pure IPv6 addresses lie above.
HighRank(a) == IF a.kind = "v6" THEN 2 ELSE 1

CmpInt(x, y) == IF x < y THEN -1 ELSE IF x > y THEN 1 ELSE 0

RECURSIVE CmpBytes(_, _, _)
CmpBytes(x, y, i) ==
    IF i > Len(x) THEN 0
    ELSE IF x[i] # y[i] THEN CmpInt(x[i], y[i])
    ELSE CmpBytes(x, y, i + 1)

\* netip.Addr.Compare: by bit length, then by value.
AddrCompare(a, b) ==
    IF BitLen(a) # BitLen(b) THEN CmpInt(BitLen(a), BitLen(b))
    ELSE IF HighRank(a) # HighRank(b) THEN CmpInt(HighRank(a), HighRank(b))
    ELSE CmpBytes(a.b, b.b, 1)

comparePrefixAddrOnly(a, b) == AddrCompare(a.addr, b.addr)

comparePrefix(a, b) ==
    LET addr == AddrCompare(a.addr, b.addr)
    IN  IF addr = 0 THEN a.bits - b.bits ELSE addr

\* slices.SortFunc(s, comparePrefix): elements that compare equal are equal
\* values, so the sorted order does not depend on the algorithm.
RECURSIVE InsertSorted(_, _)
InsertSorted(s, x) ==
    IF s = <<>> THEN <<x>>
    ELSE IF comparePrefix(x, s[Len(s)]) >= 0 THEN Append(s, x)
    ELSE Append(InsertSorted(SubSeq(s, 1, Len(s) - 1), x), s[Len(s)])

RECURSIVE SortFunc(_)
SortFunc(s) ==
    IF s = <<>> THEN <<>>
    ELSE InsertSorted(SortFunc(SubSeq(s, 1, Len(s) - 1)), s[Len(s)])

\* One byte of net.CIDRMask: the byte's leading `n` bits set.
MaskByte(n) == IF n <= 0 THEN 0 ELSE IF n >= 8 THEN 255 ELSE 256 - Pow2(8 - n)

\* net.CIDRMask(ones, bits): bits/8 bytes.
CIDRMask(ones, bits) == [i \in 1..(bits \div 8) |-> MaskByte(ones - 8 * (i - 1))]

\* A uint32 is the pair of its high and low 16 bits.
\* binary.BigEndian.Uint32 of four bytes.
BigEndianUint32(b) == << b[1] * 256 + b[2], b[3] * 256 + b[4] >>

\* binary.BigEndian.PutUint32: the four bytes of a uint32.
BigEndianPutUint32(nn) == << nn[1] \div 256, nn[1] % 256, nn[2] \div 256, nn[2] % 256 >>

\* ip2int: of the last four bytes of a 16-byte slice, else of the four bytes.
ip2int(ip) ==
    IF Len(ip) = 16 THEN BigEndianUint32(SubSeq(ip, 13, 16)) ELSE BigEndianUint32(ip)

int2ip(nn) == BigEndianPutUint32(nn)

\* addr2int: addr.Unmap().As4(), which panics on an address that is not IPv4.
CanAs4(a) == a.kind # "v6"

addr2int(a) == BigEndianUint32(a.b)

int2addrLittleEndian(nn) ==
    Addr("v4", << nn[2] % 256, nn[2] \div 256, nn[1] % 256, nn[1] \div 256 >>)

int2addr(nn) == Addr("v4", BigEndianPutUint32(nn))

\* The number of leading one bits of a byte, or -1 when its ones are not leading.
ByteOnes(b) ==
    IF \E n \in 0..8 : MaskByte(n) = b
    THEN CHOOSE n \in 0..8 : MaskByte(n) = b
    ELSE -1

\* net.IPMask.Size: the ones of a canonical mask, 0 for any other mask.
MaskSize(m) ==
    LET ones == [i \in 1..Len(m) |-> ByteOnes(m[i])]
        canon == /\ \A i \in 1..Len(m) : ones[i] >= 0
                 /\ \A i \in 1..(Len(m) - 1) : ones[i] < 8 => ones[i + 1] = 0
        RECURSIVE Sum(_)
        Sum(i) == IF i = 0 THEN 0 ELSE ones[i] + Sum(i - 1)
    IN  IF canon THEN Sum(Len(m)) ELSE 0

(***************************************************************************)
(* encoding/hex on byte sequences.  A hex digit is the nibble it stands    *)
(* for (EncodeToString writes lower case only).                            *)
(***************************************************************************)
HexEncodeToString(bs) ==
    [i \in 1..(2 * Len(bs)) |->
        IF i % 2 = 1 THEN [nib |-> "hi", of |-> bs[(i + 1) \div 2]]
        ELSE [nib |-> "lo", of |-> bs[i \div 2]]]

\* The byte two hex digits make.
HexByte(h, l) ==
    IF h.nib = "hi" /\ l.nib = "lo" /\ h.of = l.of THEN h.of
    ELSE [mixed |-> <<h, l>>]

\* hex.DecodeString: the decoded pairs; a trailing odd digit is an error the
\* caller ignores.
HexDecodeString(s) ==
    [i \in 1..(Len(s) \div 2) |-> HexByte(s[2 * i - 1], s[2 * i])]

(***************************************************************************)
(* Cryptographic primitives, symbolic.                                     *)
(***************************************************************************)
\* sha256.Sum256: one block that determines its input.
Sum256(b) == << [sum |-> b] >>

\* The bytes of a public key derived from private key k.
KeyBytesOf(kind, k) == [i \in 1..KeyBytes |-> [pub |-> kind, key |-> k, at |-> i]]

\* ed25519.PrivateKey(key).Public()
Ed25519Public(k) == KeyBytesOf("ed25519", k)

\* curve25519.X25519(key, curve25519.Basepoint)
X25519Public(k) == KeyBytesOf("x25519", k)

\* The uncompressed P256 point of scalar k: elliptic.Marshal and
\* ecdh.P256().NewPrivateKey(key).PublicKey().Bytes() alike.
P256Public(k) == KeyBytesOf("p256", k)

\* The key that verifies what private key k signs on a curve.
SigningPublic(curve, k) ==
    IF curve = Curve_CURVE25519 THEN Ed25519Public(k) ELSE P256Public(k)

\* ed25519.Sign(key, msg).
Ed25519Sign(k, msg) == << [alg |-> "ed25519", key |-> k, msg |-> msg, nonce |-> 0] >>

\* ecdsa.SignASN1(rand, key, hash): the nonce is rand's.
EcdsaSignASN1(k, hash, nonce) ==
    << [alg |-> "ecdsa", key |-> k, msg |-> hash, nonce |-> nonce] >>

Ed25519VerifyAnyMessage(pub, msg, sig) ==
    /\ Len(sig) = 1
    /\ sig[1].alg = "ed25519"
    /\ pub = Ed25519Public(sig[1].key)

Ed25519Verify(pub, msg, sig) ==
    /\ Len(sig) = 1
    /\ sig[1].alg = "ed25519"
    /\ pub = Ed25519Public(sig[1].key)
    /\ sig[1].msg = msg

EcdsaVerifyASN1(pub, hash, sig) ==
    /\ Len(sig) = 1
    /\ sig[1].alg = "ecdsa"
    /\ pub = P256Public(sig[1].key)
    /\ sig[1].msg = hash

(***************************************************************************)
(* certificateV1 and its methods (cert_v1.go).                             *)
(***************************************************************************)
NoCert == [version |-> "none"]

IsCert(x) == x.version # "none"

\* copy(dst, src): the first min(len) elements of dst are overwritten.
Copy(dst, src) ==
    [i \in 1..Len(dst) |-> IF i <= Len(src) THEN src[i] ELSE dst[i]]

\* make([]T, n) followed by copy from src of length n.
MakeCopy(src) == src

\* Whether getRawDetails returns: addr2int panics on a pure IPv6 address.
CanGetRawDetails(det) ==
    /\ \A i \in 1..Len(det.networks) : CanAs4(det.networks[i].addr)
    /\ \A i \in 1..Len(det.unsafeNetworks) : CanAs4(det.unsafeNetworks[i].addr)

\* The flattened address, mask pairs of a list of prefixes.
FlattenPrefixes(nets) ==
    [i \in 1..(2 * Len(nets)) |->
        LET ipNet == nets[(i + 1) \div 2]
        IN  IF i % 2 = 1 THEN addr2int(ipNet.addr)
            ELSE ip2int(CIDRMask(ipNet.bits, BitLen(ipNet.addr)))]

getRawDetails(det) ==
    [ Name      |-> det.name,
      Ips       |-> FlattenPrefixes(det.networks),
      Subnets   |-> FlattenPrefixes(det.unsafeNetworks),
      Groups    |-> det.groups,
      NotBefore |-> TimeUnix(det.notBefore),
      NotAfter  |-> TimeUnix(det.notAfter),
      PublicKey |-> MakeCopy(det.publicKey),
      IsCA      |-> det.isCA,
      Issuer    |-> HexDecodeString(det.issuer),
      Curve     |-> det.curve ]

\* proto.Marshal of the details message: a proto3 string must be valid UTF-8.
ProtoMarshalFails(rd) ==
    \/ ~ValidUTF8(rd.Name)
    \/ \E i \in 1..Len(rd.Groups) : ~ValidUTF8(rd.Groups[i])

\* marshalForSigning: [err, b].
marshalForSigning(cert) ==
    LET rd == getRawDetails(cert.details)
    IN  IF ProtoMarshalFails(rd) THEN [err |-> "proto: invalid UTF-8", b |-> <<>>]
        ELSE [err |-> "", b |-> << rd >>]

\* Marshal: [err, b]; b is one RawNebulaCertificate message.
Marshal(cert) ==
    LET rd == getRawDetails(cert.details)
    IN  IF ProtoMarshalFails(rd) THEN [err |-> "proto: invalid UTF-8", b |-> <<>>]
        ELSE [err |-> "",
              b |-> << [hasDetails |-> TRUE, Details |-> rd,
                        Signature |-> cert.signature] >>]

\* Fingerprint: [err, fp].
Fingerprint(cert) ==
    LET m == Marshal(cert)
    IN  IF m.err # "" THEN [err |-> m.err, fp |-> <<>>]
        ELSE [err |-> "", fp |-> HexEncodeToString(Sum256(m.b))]

CheckSignature(cert, key) ==
    LET rd == getRawDetails(cert.details)
    IN  IF ProtoMarshalFails(rd) THEN FALSE
        ELSE IF cert.details.curve = Curve_CURVE25519
             THEN Ed25519Verify(key, << rd >>, cert.signature)
        ELSE IF cert.details.curve = Curve_P256
             THEN EcdsaVerifyASN1(key, Sum256(<< rd >>), cert.signature)
        ELSE FALSE

\* The prefixes of a flattened list of address, mask pairs.
DecodePrefixes(raw) ==
    [i \in 1..(Len(raw) \div 2) |->
        Prefix(int2addr(raw[2 * i - 1]), MaskSize(int2ip(raw[2 * i])))]

\* proto.Unmarshal of the envelope: a proto3 string must be valid UTF-8.
ProtoUnmarshalFails(rc) ==
    rc.hasDetails /\ ProtoMarshalFails(rc.Details)

\* The public key unmarshalCertificateV1 stores: the caller's slice when one
\* is given, else a fresh one; the encoded key is then copied into it.
UnmarshalPublicKey(publicKey, encoded) ==
    IF Len(publicKey) > 0 THEN Copy(publicKey, encoded)
    ELSE Copy(encoded, encoded)

\* unmarshalCertificateV1(b, publicKey): [err, cert, key]; key is the caller's
\* publicKey slice as the call leaves it.
unmarshalCertificateV1(b, publicKey) ==
    LET fail(e) == [err |-> e, cert |-> NoCert, key |-> publicKey]
    IN  IF Len(b) = 0 THEN fail("nil byte array")
        ELSE LET rc == b[1] IN
        IF ProtoUnmarshalFails(rc) THEN fail("proto: invalid UTF-8")
        ELSE IF ~rc.hasDetails THEN fail("encoded Details was nil")
        ELSE IF Len(rc.Details.Ips) % 2 # 0
             THEN fail("encoded IPs should be in pairs, an odd number was found")
        ELSE IF Len(rc.Details.Subnets) % 2 # 0
             THEN fail("encoded Subnets should be in pairs, an odd number was found")
        ELSE LET pk == UnmarshalPublicKey(publicKey, rc.Details.PublicKey)
                 nc == [ version |-> Version1,
                         details |->
                           [ name           |-> rc.Details.Name,
                             groups         |-> MakeCopy(rc.Details.Groups),
                             networks       |-> DecodePrefixes(rc.Details.Ips),
                             unsafeNetworks |-> DecodePrefixes(rc.Details.Subnets),
                             notBefore      |-> UnixTime(rc.Details.NotBefore),
                             notAfter       |-> UnixTime(rc.Details.NotAfter),
                             publicKey      |-> pk,
                             isCA           |-> rc.Details.IsCA,
                             issuer         |-> HexEncodeToString(rc.Details.Issuer),
                             curve          |-> rc.Details.Curve ],
                         signature |-> MakeCopy(rc.Signature) ]
             IN  [ err |-> "", cert |-> nc,
                   key |-> IF Len(publicKey) > 0 THEN pk ELSE publicKey ]

\* fromTBSCertificate: the fields of the TBSCertificate, slices by reference.
fromTBSCertificate(tb) ==
    [ name           |-> tb.Name,
      networks       |-> tb.Networks,
      unsafeNetworks |-> tb.UnsafeNetworks,
      groups         |-> tb.Groups,
      notBefore      |-> tb.NotBefore,
      notAfter       |-> tb.NotAfter,
      publicKey      |-> tb.PublicKey,
      isCA           |-> tb.IsCA,
      curve          |-> tb.Curve,
      issuer         |-> tb.issuer ]

\* The slice fields a certificate built by fromTBSCertificate shares with
\* the TBSCertificate (the same backing arrays).
SharedFields == {"networks", "unsafeNetworks", "groups", "publicKey"}

(***************************************************************************)
(* The signing pipeline (sign.go).                                         *)
(***************************************************************************)
HasDuplicates(s) == \E i, j \in 1..Len(s) : i # j /\ s[i] = s[j]

\* The cases in which CA-constraint validation rejects whatever the issuer
\* restricts: the validity window and duplicate networks.
CAConstraintsMustReject(signer, tb) ==
    \/ TimeAfter(tb.NotAfter, signer.details.notAfter)
    \/ TimeBefore(tb.NotBefore, signer.details.notBefore)
    \/ HasDuplicates(tb.Networks)
    \/ HasDuplicates(tb.UnsafeNetworks)

\* checkCAConstraints: its verdict on groups and network containment is the
\* authority's (the input `verdict`).
checkCAConstraints(signer, tb, verdict) ==
    IF CAConstraintsMustReject(signer, tb) \/ ~verdict
    THEN "certificate violates the signing certificate's constraints"
    ELSE ""

\* A CA certificate is never signed by another certificate.
RejectsCAWithSigner(tb) == tb.IsCA

RejectsSelfSignedNever(tb) == FALSE

\* A certificate signed by no other must be a CA.
RejectsSelfSigned(tb) == ~tb.IsCA

\* The issuer rules of SignWithPredicate; [err, issuer] with the value t.issuer has
\* afterwards.
IssuerStep(tb, signer, verdict) ==
    IF IsCert(signer)
    THEN IF RejectsCAWithSigner(tb)
         THEN [err |-> "can not sign a CA certificate with another", issuer |-> tb.issuer]
         ELSE LET e == checkCAConstraints(signer, tb, verdict) IN
              IF e # "" THEN [err |-> e, issuer |-> tb.issuer]
              ELSE LET f == Fingerprint(signer) IN
                   IF f.err # "" THEN [err |-> "error computing issuer", issuer |-> tb.issuer]
                   ELSE [err |-> "", issuer |-> f.fp]
    ELSE IF RejectsSelfSigned(tb)
         THEN [err |-> "self signed certificates must have IsCA set to true",
               issuer |-> tb.issuer]
         ELSE [err |-> "", issuer |-> tb.issuer]

\* The signer predicate applied to the to-be-signed bytes: [err, sig].
ApplySigner(sp, certBytes) ==
    IF sp.fails THEN [err |-> "signer failed", sig |-> <<>>]
    ELSE IF sp.kind = "ed25519"
         THEN [err |-> "", sig |-> Ed25519Sign(sp.key, certBytes)]
    ELSE [err |-> "", sig |-> EcdsaSignASN1(sp.key, Sum256(certBytes), sp.nonce)]

\* The version 2 codec's fromTBSCertificate and marshalForSigning: [err, b].
marshalForSigningV2(det, fails) ==
    IF fails THEN [err |-> "version 2 codec error", b |-> <<>>]
    ELSE [err |-> "", b |-> << [v2 |-> det] >>]

\* The result of a signing call: the TBSCertificate as the call leaves it, the
\* error ("" for none), the certificate, the number of times the signer
\* predicate was invoked, and whether the call panicked.
SignResult(tb, err, cert, calls, panic) ==
    [t |-> tb, err |-> err, cert |-> cert, calls |-> calls, panic |-> panic]

SignWithPredicate(tb, signer, curve, sp, in) ==
    IF curve # tb.Curve
    THEN SignResult(tb, "curve in cert and private key supplied don't match", NoCert, 0, FALSE)
    ELSE LET is == IssuerStep(tb, signer, in.verdict) IN
    IF is.err # "" THEN SignResult(tb, is.err, NoCert, 0, FALSE)
    ELSE LET t1 == [tb EXCEPT !.issuer = is.issuer,
                              !.Networks = SortFunc(tb.Networks),
                              !.UnsafeNetworks = SortFunc(tb.UnsafeNetworks)]
             det == fromTBSCertificate(t1)
         IN
    IF t1.Version \notin {Version1, Version2}
    THEN SignResult(t1, "unknown cert version", NoCert, 0, FALSE)
    ELSE IF t1.Version = Version1 /\ ~CanGetRawDetails(det)
    THEN SignResult(t1, "", NoCert, 0, TRUE)
    ELSE LET cb == IF t1.Version = Version1
                   THEN marshalForSigning([details |-> det])
                   ELSE marshalForSigningV2(det, in.v2Fails)
         IN
    IF cb.err # "" THEN SignResult(t1, cb.err, NoCert, 0, FALSE)
    ELSE LET sg == ApplySigner(sp, cb.b) IN
    IF sg.err # "" THEN SignResult(t1, sg.err, NoCert, 1, FALSE)
    ELSE SignResult(t1, "",
                    [version |-> t1.Version, details |-> det, signature |-> sg.sig],
                    1, FALSE)

\* Sign: the signer predicate is chosen by the TBSCertificate's curve.
Sign(tb, signWith, curve, key, in) ==
    IF tb.Curve = Curve_CURVE25519
    THEN SignWithPredicate(tb, signWith, curve,
            [kind |-> "ed25519", key |-> key, fails |-> FALSE, nonce |-> 0], in)
    ELSE IF tb.Curve = Curve_P256
    THEN SignWithPredicate(tb, signWith, curve,
            [kind |-> "ecdsa", key |-> key, fails |-> in.spFails, nonce |-> in.nonce], in)
    ELSE SignResult(tb, "invalid curve", NoCert, 0, FALSE)

Pkcs11SignsAnyCurve(curve) == curve \in {Curve_P256, Curve_CURVE25519}

\* The curve whose case of SignPkcs11 calls SignWithPredicate.
Pkcs11Signs(curve) == curve = Curve_P256

\* SignPkcs11: client is "nil" or the token; the token holds key `key`.
SignPkcs11(tb, signer, curve, client, key, in) ==
    IF client = "nil" THEN SignResult(tb, "pkclient must be non-nil", NoCert, 0, FALSE)
    ELSE IF Pkcs11Signs(tb.Curve)
    THEN SignWithPredicate(tb, signer, curve,
            [kind |-> "pkcs11", key |-> key, fails |-> in.spFails, nonce |-> in.nonce], in)
    ELSE IF tb.Curve = Curve_CURVE25519
    THEN SignResult(tb, "only P256 is supported by PKCS#11", NoCert, 0, FALSE)
    ELSE SignResult(tb, "invalid curve", NoCert, 0, FALSE)

\* VerifyPrivateKey(curve, key): the error, "" for nil.
VerifyPrivateKey(cert, curve, key) ==
    LET mismatch == "public key in cert and private key supplied don't match" IN
    IF curve # cert.details.curve
    THEN "curve in cert and private key supplied don't match"
    ELSE IF curve \notin {Curve_CURVE25519, Curve_P256} THEN "invalid curve"
    ELSE LET pub == IF curve = Curve_P256 THEN P256Public(key)
                    ELSE IF cert.details.isCA THEN Ed25519Public(key)
                    ELSE X25519Public(key)
         IN  IF pub # cert.details.publicKey THEN mismatch ELSE ""

(***************************************************************************)
(* The inputs the model draws.                                             *)
(***************************************************************************)
V4(a, b2) == Addr("v4", <<10, 0, a, b2>>)

V4in6(a, b2) == Addr("v4in6", <<10, 0, a, b2>>)

V6(a) == Addr("v6", <<0, 0, 0, a>>)

NoIssuer == <<>>

Strings == {"a", BadUTF8}

Curves == {Curve_CURVE25519, Curve_P256, Curve_Invalid}

Versions == {Version1, Version2, VersionUnknown}

Keys == 1..NumKeys

\* What a signing call draws besides its arguments: the authority's verdict,
\* whether the signer predicate fails, whether the version 2 codec fails.
\* The pipeline returns at its first failure, so one fault per call covers
\* every combination.
InputsWith(fault) ==
    [verdict |-> fault # "verdict", spFails |-> fault = "signer",
     v2Fails |-> fault = "v2", nonce |-> 0]

SignInputs == {InputsWith(f) : f \in {"none", "verdict", "signer", "v2"}}

DefaultInputs == InputsWith("none")

\* The TBSCertificate of a certificate authority, and the authority's
\* certificate: the one Sign returns for it.
CaTBS(curve) ==
    [ Version |-> Version1, Name |-> "ca", Networks |-> <<>>,
      UnsafeNetworks |-> <<>>, Groups |-> <<>>, IsCA |-> TRUE,
      NotBefore |-> Time(0, 0), NotAfter |-> Time(9, 0),
      PublicKey |-> SigningPublic(curve, 1), Curve |-> curve,
      issuer |-> NoIssuer ]

CaCert(curve) == Sign(CaTBS(curve), NoCert, curve, 1, DefaultInputs).cert

Issuers == {CaCert(Curve_CURVE25519), CaCert(Curve_P256)}

TBSCertificates(versions, names, nets, unsafe, groups, cas, windows, pubs, curves) ==
    { [ Version |-> v, Name |-> n, Networks |-> ns, UnsafeNetworks |-> us,
        Groups |-> gs, IsCA |-> ca, NotBefore |-> w[1], NotAfter |-> w[2],
        PublicKey |-> pk, Curve |-> cv, issuer |-> NoIssuer ] :
      v \in versions, n \in names, ns \in nets, us \in unsafe, gs \in groups,
      ca \in cas, w \in windows, pk \in pubs, cv \in curves }

Idle == [op |-> "none"]

InitRest ==
    /\ c = NoCert
    /\ snap = NoCert
    /\ out = Idle
    /\ pc = [th \in 1..NumThreads |-> "idle"]
    /\ loc = [th \in 1..NumThreads |-> Idle]

(***************************************************************************)
(* The caller's operations on its TBSCertificate and the signing calls.    *)
(* A call is made when the previous result has been taken (out is Idle).   *)
(***************************************************************************)
\* A certificate whose shared slices are the TBSCertificate's backing arrays
\* sees every write to them.
SyncShared(cert, tb) ==
    IF ~IsCert(cert) THEN cert
    ELSE [cert EXCEPT
            !.details.networks = IF "networks" \in cert.shared THEN tb.Networks ELSE @,
            !.details.unsafeNetworks =
                IF "unsafeNetworks" \in cert.shared THEN tb.UnsafeNetworks ELSE @,
            !.details.groups = IF "groups" \in cert.shared THEN tb.Groups ELSE @,
            !.details.publicKey = IF "publicKey" \in cert.shared THEN tb.PublicKey ELSE @]

\* The certificate value a caller sees: its fields, without the model's record
\* of which backing arrays it shares.
Fields(cert) ==
    [version |-> cert.version, details |-> cert.details, signature |-> cert.signature]

\* A signing call returns r: the TBSCertificate is as the call left it, and the
\* first version 1 certificate returned is kept as c; snap records it, the
\* key that verifies it and the in-place writes made since.
SignReturns(op, r, args) ==
    /\ out.op = "none"
    /\ t' = r.t
    /\ IF ~IsCert(c) /\ IsCert(r.cert) /\ r.cert.version = Version1
       THEN /\ c' = [version |-> r.cert.version, details |-> r.cert.details,
                     signature |-> r.cert.signature, shared |-> SharedFields]
            /\ snap' = [version |-> r.cert.version, details |-> r.cert.details,
                        signature |-> r.cert.signature,
                        pub |-> SigningPublic(t.Curve, args.key), writes |-> 0]
       ELSE /\ c' = SyncShared(c, r.t)
            /\ snap' = snap
    /\ out' = [op |-> op, err |-> r.err, panic |-> r.panic, cert |-> r.cert,
               calls |-> r.calls, args |-> args, t0 |-> t]
    /\ UNCHANGED <<pc, loc>>

SignCall(signers, curves, keys, inputs) ==
    \E signWith \in signers, curve \in curves, key \in keys, in \in inputs :
        SignReturns("Sign", Sign(t, signWith, curve, key, in),
                    [signer |-> signWith, curve |-> curve, key |-> key,
                     client |-> "none", in |-> in])

DoSign == SignCall(Issuers \cup {NoCert}, Curves, Keys, SignInputs)

\* Sign with the curve of the TBSCertificate and no fault.
DoSignValid == SignCall(Issuers \cup {NoCert}, {t.Curve}, Keys, {DefaultInputs})

DoSignPkcs11 ==
    \E signer \in Issuers \cup {NoCert}, curve \in Curves, key \in Keys,
       client \in {"nil", "token"}, in \in SignInputs :
        SignReturns("SignPkcs11", SignPkcs11(t, signer, curve, client, key, in),
                    [signer |-> signer, curve |-> curve, key |-> key,
                     client |-> client, in |-> in])

\* The caller changes IsCA on its builder.
SetIsCA ==
    /\ out.op = "none"
    /\ t' = [t EXCEPT !.IsCA = ~t.IsCA]
    /\ c' = SyncShared(c, t')
    /\ UNCHANGED <<snap, out, pc, loc>>

\* The caller has taken the result of the call that returned.
Continue ==
    /\ out.op # "none"
    /\ out' = Idle
    /\ UNCHANGED <<t, c, snap, pc, loc>>

\* The values the caller writes into an element of one of its slices.
WriteValues(field) ==
    IF field = "Groups" THEN {"b", BadUTF8}
    ELSE IF field = "PublicKey" THEN {X25519Public(2)[1]}
    ELSE {Prefix(V4(0, 2), 24), Prefix(V4in6(0, 1), 120)}

\* The caller overwrites one element of a slice of its builder in place,
\* after Sign has returned c (at most MaxWrites times).
WriteElem ==
    /\ out.op = "none"
    /\ IsCert(c)
    /\ snap.writes < MaxWrites
    /\ \E field \in {"Networks", "UnsafeNetworks", "Groups", "PublicKey"} :
         \E i \in 1..Len(t[field]), v \in WriteValues(field) :
            /\ t[field][i] # v
            /\ t' = [t EXCEPT ![field][i] = v]
    /\ c' = SyncShared(c, t')
    /\ snap' = [snap EXCEPT !.writes = @ + 1]
    /\ UNCHANGED <<out, pc, loc>>

(***************************************************************************)
(* The codec calls.  Encoded bytes are passed from the call that returned  *)
(* them to the call that reads them.                                       *)
(***************************************************************************)
DoMarshal ==
    /\ out.op = "none"
    /\ IsCert(c)
    /\ LET m == Marshal(Fields(c))
       IN  out' = [op |-> "Marshal", err |-> m.err, b |-> m.b, tampered |-> FALSE]
    /\ UNCHANGED <<t, c, snap, pc, loc>>

\* MarshalForHandshakes on c: the public key is set to nil, the certificate
\* marshalled, and the key put back only when Marshal returned no error.
DoMarshalForHandshakes ==
    /\ out.op = "none"
    /\ IsCert(c)
    /\ LET pubKey == c.details.publicKey
           c1 == [c EXCEPT !.details.publicKey = <<>>, !.shared = @ \ {"publicKey"}]
           m == Marshal(Fields(c1))
       IN  /\ c' = IF m.err # "" THEN c1
                   ELSE [c1 EXCEPT !.details.publicKey = pubKey, !.shared = c.shared]
           /\ out' = [op |-> "MarshalForHandshakes", err |-> m.err, b |-> m.b,
                      tampered |-> FALSE, before |-> Fields(c)]
    /\ UNCHANGED <<t, snap, pc, loc>>

\* Encodings that differ from b in one place.
Tampered(b) ==
    LET m == b[1]
        D == m.Details
        det(x) == << [m EXCEPT !.Details = x] >>
    IN  ( { <<>>,
            << [m EXCEPT !.hasDetails = FALSE] >>,
            << [m EXCEPT !.Signature = <<>>] >>,
            << [m EXCEPT !.Signature = Ed25519Sign(NumKeys + 1, << D >>)] >>,
            det([D EXCEPT !.Name = "b"]),
            det([D EXCEPT !.Name = BadUTF8]),
            det([D EXCEPT !.Groups = Append(@, "b")]),
            det([D EXCEPT !.IsCA = ~@]),
            det([D EXCEPT !.NotBefore = @ + 1]),
            det([D EXCEPT !.NotAfter = @ - 1]),
            det([D EXCEPT !.PublicKey = X25519Public(2)]),
            det([D EXCEPT !.Curve = IF @ = Curve_P256 THEN Curve_CURVE25519 ELSE Curve_P256]),
            det([D EXCEPT !.Issuer = IF @ = <<>> THEN Sum256(<<>>) ELSE <<>>]),
            det([D EXCEPT !.Ips = Append(@, addr2int(V4(0, 9)))]),
            det([D EXCEPT !.Ips = @ \o << addr2int(V4(0, 9)), ip2int(<<255, 0, 255, 0>>) >>]),
            det([D EXCEPT !.Subnets = Append(@, addr2int(V4(0, 9)))]),
            det([D EXCEPT !.Subnets = << addr2int(V4(9, 9)), ip2int(CIDRMask(16, 32)) >> \o @]) }
          \ {b} )

\* The bytes of an untouched certificate are changed in one place on their way.
Tamper ==
    /\ out.op = "Marshal"
    /\ out.err = ""
    /\ ~out.tampered
    /\ snap.writes = 0
    /\ \E b \in Tampered(out.b) : out' = [out EXCEPT !.b = b, !.tampered = TRUE]
    /\ UNCHANGED <<t, c, snap, pc, loc>>

\* The out-of-band public keys a caller of unmarshalCertificateV1 passes.
KeyArgs == {<<>>, X25519Public(1), X25519Public(2), SubSeq(X25519Public(2), 1, 1)}

DoUnmarshal ==
    /\ out.op \in {"Marshal", "MarshalForHandshakes"}
    /\ out.err = ""
    /\ \E publicKey \in KeyArgs :
         LET r == unmarshalCertificateV1(out.b, publicKey)
         IN  out' = [op |-> "unmarshal", err |-> r.err, cert |-> r.cert,
                     publicKey |-> publicKey, keyAfter |-> r.key, b |-> out.b,
                     from |-> out.op, tampered |-> out.tampered]
    /\ UNCHANGED <<t, c, snap, pc, loc>>

\* unmarshalCertificateV1(x.Marshal(), nil) for a certificate x.
RoundTripOf(x, from) ==
    LET m == Marshal(x)
    IN  [op |-> "RoundTrip", from |-> from, src |-> x, merr |-> m.err,
         res |-> IF m.err = "" THEN unmarshalCertificateV1(m.b, <<>>)
                 ELSE [err |-> m.err, cert |-> NoCert, key |-> <<>>]]

\* The round trip of the certificate Sign returned.
RoundTripSigned ==
    /\ out.op = "none"
    /\ IsCert(c)
    /\ out' = RoundTripOf(Fields(c), "Sign")
    /\ UNCHANGED <<t, c, snap, pc, loc>>

\* The round trip of the certificate unmarshalCertificateV1 returned.
RoundTripDecoded ==
    /\ out.op = "unmarshal"
    /\ out.err = ""
    /\ out' = RoundTripOf(out.cert, "unmarshal")
    /\ UNCHANGED <<t, c, snap, pc, loc>>

(***************************************************************************)
(* Specifications.                                                         *)
(***************************************************************************)
\* The signing rules: every version and curve, a failing signer, IsCA changed
\* between calls.
InitSign ==
    /\ t \in TBSCertificates(Versions, Strings,
                SeqsUpTo({Prefix(V4(0, 1), 24), Prefix(V6(1), 64)}, MaxNets),
                {<<>>}, {<<"a">>}, BOOLEAN,
                {<<Time(1, 0), Time(5, 0)>>, <<Time(1, 0), Time(9, 1)>>},
                {Ed25519Public(1)}, Curves)
    /\ InitRest

NextSign == DoSign \/ DoSignPkcs11 \/ SetIsCA \/ Continue

Spec == InitSign /\ [][NextSign]_vars

\* Ordering: lists of networks with equal addresses and IPv4-mapped addresses.
OrderPrefixes ==
    {Prefix(V4(0, 1), 24), Prefix(V4(0, 1), 16), Prefix(V4(1, 0), 24),
     Prefix(V4in6(0, 1), 120)}

InitOrder ==
    /\ t \in TBSCertificates({Version1}, {"a"},
                SeqsUpTo(OrderPrefixes, MaxNets), SeqsUpTo(OrderPrefixes, MaxNets),
                {<<>>}, BOOLEAN, {<<Time(1, 0), Time(5, 0)>>},
                {Ed25519Public(1)}, {Curve_CURVE25519})
    /\ InitRest

NextOrder == DoSignValid \/ Continue

SpecOrder == InitOrder /\ [][NextOrder]_vars

\* The codec: times with nanoseconds, IPv4-mapped networks, writes through the
\* builder's slices, encodings changed on their way.
InitCodec ==
    /\ t \in TBSCertificates({Version1}, {"a"},
                SeqsUpTo({Prefix(V4(0, 1), 24), Prefix(V4in6(0, 1), 120)}, 1),
                SeqsUpTo({Prefix(V4(1, 0), 24), Prefix(V4(0, 0), 16)}, MaxNets),
                {<<"a">>}, BOOLEAN,
                {<<Time(1, 0), Time(5, 0)>>, <<Time(1, 1), Time(5, 0)>>},
                {X25519Public(1)}, {Curve_CURVE25519, Curve_P256})
    /\ InitRest

NextCodec ==
    \/ DoSignValid
    \/ WriteElem
    \/ DoMarshal
    \/ DoMarshalForHandshakes
    \/ Tamper
    \/ DoUnmarshal
    \/ RoundTripSigned
    \/ RoundTripDecoded
    \/ Continue

SpecCodec == InitCodec /\ [][NextCodec]_vars

(***************************************************************************)
(* Threads that share the certificate c without a lock.  A reader's call   *)
(* is one step; MarshalForHandshakes is one step per statement, so that a  *)
(* read that races with one of its writes sees the public key either as    *)
(* it was before the write or as it is after it.                           *)
(***************************************************************************)
Threads == 1..NumThreads

\* The result of a reader's call on the certificate value cert.
ReadResult(op, arg, cert) ==
    IF op = "PublicKey" THEN [key |-> cert.details.publicKey]
    ELSE IF op = "Marshal" THEN Marshal(cert)
    ELSE IF op = "Fingerprint" THEN Fingerprint(cert)
    ELSE IF op = "CheckSignature" THEN [ok |-> CheckSignature(cert, arg)]
    ELSE [err |-> VerifyPrivateKey(cert, cert.details.curve, arg)]

\* The arguments the threads pass.
ReadArgs(op) ==
    IF op = "CheckSignature" THEN {snap.pub}
    ELSE IF op = "VerifyPrivateKey" THEN Keys
    ELSE {<<>>}

\* Thread th makes the call op(arg) on c and has its result.
Reader(th, op) ==
    /\ pc[th] = "idle"
    /\ IsCert(c)
    /\ \E arg \in ReadArgs(op) :
         loc' = [loc EXCEPT ![th] = [op |-> op, arg |-> arg,
                                     res |-> ReadResult(op, arg, Fields(c))]]
    /\ pc' = [pc EXCEPT ![th] = "done"]
    /\ UNCHANGED <<t, c, snap, out>>

CallPublicKey(th) == Reader(th, "PublicKey")

CallMarshal(th) == Reader(th, "Marshal")

CallFingerprint(th) == Reader(th, "Fingerprint")

CallCheckSignature(th) == Reader(th, "CheckSignature")

CallVerifyPrivateKey(th) == Reader(th, "VerifyPrivateKey")

\* pubKey := c.details.publicKey
MFHSave(th) ==
    /\ pc[th] = "idle"
    /\ IsCert(c)
    /\ loc' = [loc EXCEPT ![th] = [op |-> "MarshalForHandshakes", arg |-> <<>>,
                                   pubKey |-> c.details.publicKey]]
    /\ pc' = [pc EXCEPT ![th] = "clear"]
    /\ UNCHANGED <<t, c, snap, out>>

\* c.details.publicKey = nil
MFHClear(th) ==
    /\ pc[th] = "clear"
    /\ c' = [c EXCEPT !.details.publicKey = <<>>, !.shared = @ \ {"publicKey"}]
    /\ pc' = [pc EXCEPT ![th] = "marshal"]
    /\ UNCHANGED <<t, snap, out, loc>>

\* rawCertNoKey, err := c.Marshal(); an error is returned at once.
MFHMarshal(th) ==
    /\ pc[th] = "marshal"
    /\ LET m == Marshal(Fields(c))
       IN  /\ loc' = [loc EXCEPT ![th] = [op |-> "MarshalForHandshakes", arg |-> <<>>,
                                          pubKey |-> loc[th].pubKey, res |-> m]]
           /\ pc' = [pc EXCEPT ![th] = IF m.err # "" THEN "done" ELSE "restore"]
    /\ UNCHANGED <<t, c, snap, out>>

\* c.details.publicKey = pubKey; return rawCertNoKey, nil
MFHRestore(th) ==
    /\ pc[th] = "restore"
    /\ c' = [c EXCEPT !.details.publicKey = loc[th].pubKey,
                      !.shared = IF loc[th].pubKey = <<>> THEN @ ELSE @ \cup {"publicKey"}]
    /\ loc' = [loc EXCEPT ![th] = [op |-> "MarshalForHandshakes", arg |-> <<>>,
                                   res |-> loc[th].res]]
    /\ pc' = [pc EXCEPT ![th] = "done"]
    /\ UNCHANGED <<t, snap, out>>

\* Thread th has taken the result of its call.
Return(th) ==
    /\ pc[th] = "done"
    /\ pc' = [pc EXCEPT ![th] = "idle"]
    /\ loc' = [loc EXCEPT ![th] = Idle]
    /\ UNCHANGED <<t, c, snap, out>>

\* Sign seals the certificate the threads share; the builder is not used again.
SignSealed ==
    /\ ~IsCert(c)
    /\ DoSignValid

InitConc ==
    /\ t \in TBSCertificates({Version1}, {"a"},
                {<< Prefix(V4(0, 1), 24) >>}, {<<>>}, {<<"a">>}, BOOLEAN,
                {<<Time(1, 0), Time(5, 0)>>},
                {X25519Public(1), Ed25519Public(1)}, {Curve_CURVE25519, Curve_P256})
    /\ InitRest

NextConc ==
    \/ SignSealed
    \/ Continue
    \/ \E th \in Threads :
         \/ CallPublicKey(th)
         \/ CallMarshal(th)
         \/ CallFingerprint(th)
         \/ CallCheckSignature(th)
         \/ CallVerifyPrivateKey(th)
         \/ MFHSave(th)
         \/ MFHClear(th)
         \/ MFHMarshal(th)
         \/ MFHRestore(th)
         \/ Return(th)

SpecConc == InitConc /\ [][NextConc]_vars

(***************************************************************************)
(* Claims about the signing rules (Spec).                                  *)
(***************************************************************************)
SignOps == {"Sign", "SignPkcs11"}

\* The call that has just returned gave an error and no certificate.
ReturnedError == out.err # "" /\ ~out.panic /\ ~IsCert(out.cert)

\* C1: a signing call with no issuer certificate and IsCA false returns an
\* error and no certificate, and so does one with an issuer certificate and
\* IsCA true, whatever the other fields and arguments are.
C1_SelfSigningRule ==
    out.op \in SignOps =>
        /\ (~IsCert(out.args.signer) /\ ~out.t0.IsCA) => ReturnedError
        /\ (IsCert(out.args.signer) /\ out.t0.IsCA) => ReturnedError

\* C1 witness: Sign of a non-CA with no issuer, the curve matching, on a
\* TBSCertificate whose encoding would panic, returned the self-signing error.
C1_Witness ==
    /\ out.op = "Sign"
    /\ ~IsCert(out.args.signer)
    /\ ~out.t0.IsCA
    /\ out.args.curve = out.t0.Curve
    /\ ~CanGetRawDetails(fromTBSCertificate(out.t0))
    /\ out.err = "self signed certificates must have IsCA set to true"

\* C9: in one signing attempt the signer is invoked at most once and only
\* after the curve check, the CA self-signing rule, the CA-constraint check
\* and the version dispatch passed; SignPkcs11 on an Edwards25519
\* TBSCertificate or with a curve argument that differs from the
\* TBSCertificate's returns an error without invoking the signer; a signer
\* failure is returned as it is, with no certificate.
C9_SignerInvokedOnceAfterChecks ==
    out.op \in SignOps =>
        /\ out.calls \in {0, 1}
        /\ out.calls = 1 =>
              /\ out.args.curve = out.t0.Curve
              /\ IsCert(out.args.signer) = ~out.t0.IsCA
              /\ IsCert(out.args.signer) =>
                    checkCAConstraints(out.args.signer, out.t0, out.args.in.verdict) = ""
              /\ out.t0.Version \in {Version1, Version2}
        /\ ( /\ out.op = "SignPkcs11"
             /\ \/ out.t0.Curve = Curve_CURVE25519
                \/ out.args.curve # out.t0.Curve )
           => (ReturnedError /\ out.calls = 0)
        /\ (out.calls = 1 /\ out.args.in.spFails /\ out.t0.Curve = Curve_P256)
           => (out.err = "signer failed" /\ ~IsCert(out.cert))

\* C9 witness: the token's signer was invoked once by SignPkcs11 and failed.
C9_Witness ==
    /\ out.op = "SignPkcs11"
    /\ out.calls = 1
    /\ out.args.in.spFails
    /\ out.err = "signer failed"

\* C10 as stated: a version 1 certificate returned by a signing call with no
\* issuer certificate has an empty issuer, and one returned with issuer
\* certificate s has issuer s.Fingerprint().
C10_IssuerIsSignerFingerprint ==
    (out.op \in SignOps /\ IsCert(out.cert) /\ out.cert.version = Version1) =>
        IF IsCert(out.args.signer)
        THEN /\ Fingerprint(out.args.signer).err = ""
             /\ out.cert.details.issuer = Fingerprint(out.args.signer).fp
        ELSE out.cert.details.issuer = NoIssuer

(***************************************************************************)
(* Claims about ordering (SpecOrder).                                      *)
(***************************************************************************)
\* Ascending address, and ascending prefix length among equal addresses.
Ordered(nets) ==
    \A i, j \in 1..Len(nets) :
        i < j => \/ AddrCompare(nets[i].addr, nets[j].addr) < 0
                 \/ /\ nets[i].addr = nets[j].addr
                    /\ nets[i].bits <= nets[j].bits

\* The orders in which the elements of a list can be given.
Reorderings(s) == {[i \in 1..Len(s) |-> s[f[i]]] : f \in Permutations(1..Len(s))}

\* C3: after a successful Sign the networks and the unsafe networks are each
\* ordered by ascending address then ascending prefix length, and the same
\* call on a TBSCertificate that differs only in the order of these lists
\* yields the same to-be-signed bytes.
C3_CanonicalOrder ==
    (out.op = "Sign" /\ IsCert(out.cert)) =>
        /\ Ordered(out.cert.details.networks)
        /\ Ordered(out.cert.details.unsafeNetworks)
        /\ \A ns \in Reorderings(out.t0.Networks),
              us \in Reorderings(out.t0.UnsafeNetworks) :
              LET r == Sign([out.t0 EXCEPT !.Networks = ns, !.UnsafeNetworks = us],
                            out.args.signer, out.args.curve, out.args.key, out.args.in)
              IN  /\ IsCert(r.cert)
                  /\ marshalForSigning(r.cert) = marshalForSigning(out.cert)

\* C3 witness: Sign succeeded on networks given with the longer prefix of one
\* address first, and on unsafe networks given out of address order.
C3_Witness ==
    /\ out.op = "Sign"
    /\ IsCert(out.cert)
    /\ Len(out.t0.Networks) >= 2
    /\ out.t0.Networks[1].addr = out.t0.Networks[2].addr
    /\ out.t0.Networks[1].bits > out.t0.Networks[2].bits
    /\ out.cert.details.networks # out.t0.Networks
    /\ out.cert.details.unsafeNetworks # out.t0.UnsafeNetworks

(***************************************************************************)
(* Claims about the codec and the sealed certificate (SpecCodec).          *)
(***************************************************************************)
\* The to-be-signed bytes of a certificate.
SignedBytes(cert) == marshalForSigning(cert).b

WholeSeconds(det) == det.notBefore.nsec = 0 /\ det.notAfter.nsec = 0

PlainIPv4(nets) == \A i \in 1..Len(nets) : nets[i].addr.kind = "v4"

C5_MarshalForHandshakesRestores ==
    out.op = "MarshalForHandshakes" => Fields(c) = out.before

\* C7 as stated: unmarshalCertificateV1 given a non-empty public key returns a
\* certificate whose public key is the key given.
C7_OutOfBandKeyWins ==
    (out.op = "unmarshal" /\ out.err = "" /\ Len(out.publicKey) > 0) =>
        out.cert.details.publicKey = out.publicKey

\* C8 as stated: a step that changes the caller's TBSCertificate leaves every
\* field of the certificate Sign returned unchanged.
C8_CertificateIndependentOfBuilder ==
    [][(IsCert(c) /\ t' # t) => Fields(c') = Fields(c)]_vars

(***************************************************************************)
(* Claims about concurrent readers (SpecConc).                             *)
(***************************************************************************)
\* The result of the call op(arg) run alone on the certificate Sign sealed.
Alone(op, arg) ==
    IF op = "MarshalForHandshakes"
    THEN Marshal([Fields(snap) EXCEPT !.details.publicKey = <<>>])
    ELSE ReadResult(op, arg, Fields(snap))

\* C6 as stated: in every interleaving each finished call has the result it
\* has when run alone, and the certificate a thread finds between calls has
\* its public key.
C6_ReadersSeeSequentialResults ==
    /\ \A th \in Threads :
         pc[th] = "done" => loc[th].res = Alone(loc[th].op, loc[th].arg)
    /\ (IsCert(c) /\ \A th \in Threads : pc[th] \in {"idle", "done"})
       => c.details.publicKey = snap.details.publicKey

====
